---- MODULE Spec2Model ----
(***************************************************************************)
(* Model of the mock Osmosis AMM module of packages/bindings-test          *)
(* (multitest.rs): the Pool value with its constant-product swap, the      *)
(* multi-hop router complex_swap, and the Swap command of                  *)
(* OsmosisModule::execute and the queries of OsmosisModule::query as they  *)
(* are run through the test App; and of the reflect contract               *)
(* (contracts/reflect/src/contract.rs) with its owner.                     *)
(*                                                                         *)
(* Amounts are Uint128 in the source.  Every amount of this model stays    *)
(* far below 2^128, so the checked arithmetic of Uint128 never overflows   *)
(* here; the two panics that small amounts do reach (division by zero and  *)
(* subtraction below zero) are modelled as the result "Panic".             *)
(* A Decimal is modelled by its numerator over DECIMAL_FRACTIONAL.         *)
(***************************************************************************)
EXTENDS Integers, Sequences, FiniteSets, TLC

VARIABLES
    store,   \* POOLS: pool_id -> Pool, the persisted pool registry
    bank,    \* the trader's bank balance per denom
    last,    \* the last command run through the App, with the state before it
    cmds,    \* number of commands and queries run so far
    pool,    \* a Pool value under direct test (Pool's pub methods)
    call,    \* the last direct call on `pool`, with the value before it
    calls,   \* number of direct calls made so far
    config,  \* the reflect contract's State singleton
    rcall,   \* the last execute of the reflect contract, with the State before it
    rcalls,  \* number of executes of the reflect contract so far
    tcall,   \* the last execute of the tokenfactory contract
    block,   \* the App's BlockInfo: height and time (seconds) since App::new
    bcall    \* the last call that advanced the block, with the block before it

vars == <<store, bank, last, cmds, pool, call, calls, config, rcall, rcalls,
          tcall, block, bcall>>

----------------------------------------------------------------------------
(* Bounds of the model *)

MaxRoute == 1      \* longest `route` (number of Steps after `first`)
MaxCmds == 1       \* commands and queries run through the App in one behaviour
MaxBal == 10       \* largest seed balance of the Pool under direct test
MaxCalls == 1      \* direct calls on the Pool under test in one behaviour
MaxMsgs == 2       \* longest message list given to the reflect contract
MaxExecs == 2      \* executes of the reflect contract in one behaviour

(* Program constants *)

DECIMAL_FRACTIONAL == 1000   \* scale of Decimal::permille
FEE_PERMILLE == 3            \* Pool::new: Decimal::permille(3)

Denoms == {"osmo", "atom", "btc"}
PoolIds == {1, 2}            \* the pool ids a command may name

----------------------------------------------------------------------------
(* Results: Ok(SwapAmount) | Err(error) | Panic *)

In(x) == [side |-> "In", amt |-> x]
Out(x) == [side |-> "Out", amt |-> x]

Ok(a) == [tag |-> "Ok", side |-> a.side, amt |-> a.amt, err |-> "-"]
Err(e) == [tag |-> "Err", side |-> "-", amt |-> 0, err |-> e]
Panic(m) == [tag |-> "Panic", side |-> "-", amt |-> 0, err |-> m]

\* Ok(()) and other Ok values that carry no SwapAmount
OkUnit == [tag |-> "Ok", side |-> "-", amt |-> 0, err |-> "-"]

IsOk(r) == r.tag = "Ok"

(* Option<Uint128> *)
Some(x) == [some |-> TRUE, val |-> x]
None == [some |-> FALSE, val |-> 0]

----------------------------------------------------------------------------
(* cosmwasm_std arithmetic as used by Pool *)

RECURSIVE IsqrtFrom(_, _)
IsqrtFrom(n, r) == IF (r + 1) * (r + 1) > n THEN r ELSE IsqrtFrom(n, r + 1)

\* Uint128::isqrt: floor of the square root
Isqrt(n) == IsqrtFrom(n, 0)

\* Decimal::one() - fee, as its numerator
OneMinus(fee) == DECIMAL_FRACTIONAL - fee

\* faulty variant: the product is rounded up
MulDecimalCeil(x, d) == (x * d + DECIMAL_FRACTIONAL - 1) \div DECIMAL_FRACTIONAL

\* Uint128 * Decimal: multiply_ratio(numerator, DECIMAL_FRACTIONAL), floored
MulDecimal(x, d) == (x * d) \div DECIMAL_FRACTIONAL

----------------------------------------------------------------------------
(* Pool *)

Coin(amount, denom) == [denom |-> denom, amount |-> amount]

\* Pool::new
PoolNew(a, b) ==
    [assets |-> <<a, b>>,
     shares |-> Isqrt(a.amount * b.amount),
     fee |-> FEE_PERMILLE]

\* a Pool built as a struct literal with another fee (all fields are pub)
PoolWithFee(a, b, fee) == [PoolNew(a, b) EXCEPT !.fee = fee]

\* Iterator::position: index of the first asset of that denom, 0 if none
Position(assets, denom) ==
    LET hits == {i \in 1..Len(assets) : assets[i].denom = denom}
    IN IF hits = {} THEN 0 ELSE CHOOSE i \in hits : \A j \in hits : i <= j

has_denom(p, denom) == \E i \in 1..Len(p.assets) : p.assets[i].denom = denom

get_amount(p, denom) ==
    LET pos == Position(p.assets, denom)
    IN IF pos = 0 THEN None ELSE Some(p.assets[pos].amount)

\* faulty variant: an absent denom is added to the pool
set_amount_or_insert(p, denom, amount) ==
    LET pos == Position(p.assets, denom)
    IN IF pos = 0
       THEN [res |-> OkUnit,
             pool |-> [p EXCEPT !.assets = Append(@, Coin(amount, denom))]]
       ELSE [res |-> OkUnit,
             pool |-> [p EXCEPT !.assets[pos].amount = amount]]

\* faulty variant: the shares are recomputed from the new balances
set_amount_reshare(p, denom, amount) ==
    LET pos == Position(p.assets, denom)
        q == [p EXCEPT !.assets[pos].amount = amount]
    IN IF pos = 0
       THEN [res |-> Err("AssetNotInPool"), pool |-> p]
       ELSE [res |-> OkUnit,
             pool |-> [q EXCEPT !.shares =
                          Isqrt(q.assets[1].amount * q.assets[2].amount)]]

\* set_amount: [res, pool]; on an absent denom the pool is untouched
set_amount(p, denom, amount) ==
    LET pos == Position(p.assets, denom)
    IN IF pos = 0
       THEN [res |-> Err("AssetNotInPool"), pool |-> p]
       ELSE [res |-> OkUnit,
             pool |-> [p EXCEPT !.assets[pos].amount = amount]]

\* a Decimal kept as the ratio Decimal::from_ratio was given
NoPrice == [num |-> 0, den |-> 1]

\* Pool::spot_price: [res, price]; Decimal::from_ratio panics on bal_in = 0
spot_price(p, denom_in, denom_out, with_swap_fee) ==
    LET a == get_amount(p, denom_in)
        b == get_amount(p, denom_out)
        mult == IF with_swap_fee THEN OneMinus(p.fee) ELSE DECIMAL_FRACTIONAL
    IN IF ~(a.some /\ b.some)
       THEN [res |-> Err("AssetNotInPool"), price |-> NoPrice]
       ELSE IF a.val = 0
       THEN [res |-> Panic("division by zero"), price |-> NoPrice]
       ELSE [res |-> OkUnit,
             price |-> [num |-> MulDecimal(b.val, mult), den |-> a.val]]

\* the tail of Pool::swap: update internal balance, denom_in first
UpdateBalances(p, denom_in, denom_out, final_in, final_out, payout) ==
    LET s1 == set_amount(p, denom_in, final_in)
        s2 == set_amount(s1.pool, denom_out, final_out)
    IN IF ~IsOk(s1.res) THEN [res |-> s1.res, pool |-> s1.pool]
       ELSE IF ~IsOk(s2.res) THEN [res |-> s2.res, pool |-> s2.pool]
       ELSE [res |-> Ok(payout), pool |-> s2.pool]

\* the SwapAmount::In arm of Pool::swap
SwapExactIn(p, denom_in, denom_out, bal_in, bal_out, input) ==
    LET input_minus_fee == MulDecimal(input, OneMinus(p.fee))
    IN IF bal_in + input_minus_fee = 0
       THEN [res |-> Panic("division by zero"), pool |-> p]
       ELSE LET final_out == (bal_in * bal_out) \div (bal_in + input_minus_fee)
                final_in == bal_in + input
            IN IF final_out > bal_out
               THEN [res |-> Panic("subtract with overflow"), pool |-> p]
               ELSE UpdateBalances(p, denom_in, denom_out, final_in, final_out,
                                   Out(bal_out - final_out))

\* faulty variant: the division is left rounded down
PayInclFeeFloor(in_without_fee, bal_in, mult) ==
    ((in_without_fee - bal_in) * DECIMAL_FRACTIONAL) \div mult

\* faulty variant: the input is taken without the fee and without the rounding unit
PayWithoutFee(in_without_fee, bal_in, mult) == in_without_fee - bal_in

\* add one to handle rounding (final_in - old_in) / (1 - fee)
PayInclFee(in_without_fee, bal_in, mult) ==
    ((in_without_fee - bal_in) * DECIMAL_FRACTIONAL) \div mult + 1

\* the SwapAmount::Out arm of Pool::swap
SwapExactOut(p, denom_in, denom_out, bal_in, bal_out, output) ==
    IF output > bal_out
    THEN [res |-> Panic("subtract with overflow"), pool |-> p]
    ELSE IF output = bal_out
    THEN [res |-> Panic("division by zero"), pool |-> p]
    ELSE LET in_without_fee == (bal_in * bal_out) \div (bal_out - output)
             mult == OneMinus(p.fee)
         IN IF mult = 0
            THEN [res |-> Panic("division by zero"), pool |-> p]
            ELSE IF in_without_fee < bal_in
            THEN [res |-> Panic("subtract with overflow"), pool |-> p]
            ELSE LET pay_incl_fee == PayInclFee(in_without_fee, bal_in, mult)
                     final_in == bal_in + pay_incl_fee
                     final_out == bal_out - output
                 IN UpdateBalances(p, denom_in, denom_out, final_in, final_out,
                                   In(pay_incl_fee))

\* faulty variant: an absent denom counts as a zero balance and is only found out
\* by set_amount
swap_unchecked(p, denom_in, denom_out, amount) ==
    IF amount.side = "In"
    THEN SwapExactIn(p, denom_in, denom_out, get_amount(p, denom_in).val,
                     get_amount(p, denom_out).val, amount.amt)
    ELSE SwapExactOut(p, denom_in, denom_out, get_amount(p, denom_in).val,
                      get_amount(p, denom_out).val, amount.amt)

\* Pool::swap: [res, pool], pool being the value of self afterwards
swap(p, denom_in, denom_out, amount) ==
    LET a == get_amount(p, denom_in)
        b == get_amount(p, denom_out)
    IN IF ~(a.some /\ b.some)
       THEN [res |-> Err("AssetNotInPool"), pool |-> p]
       ELSE IF amount.side = "In"
       THEN SwapExactIn(p, denom_in, denom_out, a.val, b.val, amount.amt)
       ELSE SwapExactOut(p, denom_in, denom_out, a.val, b.val, amount.amt)

----------------------------------------------------------------------------
(* SwapAmount / SwapAmountWithLimit (packages/bindings/src/types.rs) *)

ExactIn(input, min_output) ==
    [kind |-> "ExactIn", input |-> input, min_output |-> min_output]
ExactOut(output, max_input) ==
    [kind |-> "ExactOut", output |-> output, max_input |-> max_input]

\* faulty variant: as_out takes the Input arm
as_out_of_input(x) == [panics |-> x.side # "In", val |-> x.amt]

\* as_in / as_out: the value, or the panic "was output" / "was input"
as_in(x) == [panics |-> x.side # "In", val |-> x.amt]
as_out(x) == [panics |-> x.side # "Out", val |-> x.amt]

discard_limit(amount) ==
    IF amount.kind = "ExactIn" THEN In(amount.input) ELSE Out(amount.output)

\* Pool::swap_with_limit: [res, pool]; self.swap has acted on the pool before
\* the limit is compared
swap_with_limit(p, denom_in, denom_out, amount) ==
    LET r == swap(p, denom_in, denom_out, discard_limit(amount))
        narrowed == IF amount.kind = "ExactIn" THEN as_out(r.res)
                    ELSE as_in(r.res)
    IN IF ~IsOk(r.res) THEN r
       ELSE IF narrowed.panics
       THEN [res |-> Panic("wrong variant"), pool |-> r.pool]
       ELSE IF amount.kind = "ExactIn" /\ narrowed.val < amount.min_output
       THEN [res |-> Err("PriceTooLow"), pool |-> r.pool]
       ELSE IF amount.kind = "ExactOut" /\ narrowed.val > amount.max_input
       THEN [res |-> Err("PriceTooLow"), pool |-> r.pool]
       ELSE r

----------------------------------------------------------------------------
(* complex_swap *)

Swap(pool_id, denom_in, denom_out) ==
    [pool_id |-> pool_id, denom_in |-> denom_in, denom_out |-> denom_out]
Step(pool_id, denom_out) == [pool_id |-> pool_id, denom_out |-> denom_out]

Reverse(s) == [i \in 1..Len(s) |-> s[Len(s) + 1 - i]]

\* faulty variant: every hop of the route starts from the first denom_in
Swaps_unchained(first, route) ==
    <<first>> \o
    [i \in 1..Len(route) |->
        Swap(route[i].pool_id, first.denom_in, route[i].denom_out)]

\* all the `Swap`s we need to execute in order
Swaps(first, route) ==
    <<first>> \o
    [i \in 1..Len(route) |->
        Swap(route[i].pool_id,
             IF i = 1 THEN first.denom_out ELSE route[i - 1].denom_out,
             route[i].denom_out)]

\* the order in which complex_swap visits the hops
HopOrder(swaps, side) == IF side = "In" THEN swaps ELSE Reverse(swaps)

\* faulty variant: a pool id that is not stored loads as a pool without assets
LoadPool_or_default(storage, updated_pools, pool_id) ==
    IF pool_id \in DOMAIN storage THEN [found |-> TRUE, pool |-> storage[pool_id]]
    ELSE [found |-> TRUE, pool |-> [assets |-> <<>>, shares |-> 0, fee |-> 0]]

\* POOLS.load of one hop: every hop loads from the storage given to complex_swap
LoadPool(storage, updated_pools, pool_id) ==
    IF pool_id \in DOMAIN storage THEN [found |-> TRUE, pool |-> storage[pool_id]]
    ELSE [found |-> FALSE, pool |-> [assets |-> <<>>, shares |-> 0, fee |-> 0]]

\* the for loop of either arm: hop i of `order` with `current` as its exact amount
RECURSIVE HopLoop(_, _, _, _, _, _)
HopLoop(storage, order, i, side, current, updated_pools) ==
    IF i > Len(order)
    THEN [res |-> Ok(IF side = "In" THEN Out(current) ELSE In(current)),
          updated_pools |-> updated_pools]
    ELSE LET sw == order[i]
             ld == LoadPool(storage, updated_pools, sw.pool_id)
         IN IF ~ld.found
            THEN [res |-> Err("NotFound"), updated_pools |-> <<>>]
            ELSE LET r == swap(ld.pool, sw.denom_in, sw.denom_out,
                               [side |-> side, amt |-> current])
                     nxt == IF side = "In" THEN as_out(r.res) ELSE as_in(r.res)
                 IN IF ~IsOk(r.res)
                    THEN [res |-> r.res, updated_pools |-> <<>>]
                    ELSE IF nxt.panics
                    THEN [res |-> Panic("wrong variant"), updated_pools |-> <<>>]
                    ELSE HopLoop(storage, order, i + 1, side, nxt.val,
                                 Append(updated_pools, <<sw.pool_id, r.pool>>))

complex_swap(storage, first, route, amount) ==
    HopLoop(storage, HopOrder(Swaps(first, route), amount.side), 1,
            amount.side, amount.amt, <<>>)

----------------------------------------------------------------------------
(* OsmosisModule::execute, the OsmosisMsg::Swap arm *)

\* for (pool_id, pool) in updated_pools { POOLS.save(..) }
RECURSIVE SavePools(_, _, _)
SavePools(storage, updated_pools, i) ==
    IF i > Len(updated_pools) THEN storage
    ELSE LET id == updated_pools[i][1]
             p == updated_pools[i][2]
             saved == [k \in DOMAIN storage \cup {id} |->
                          IF k = id THEN p ELSE storage[k]]
         IN SavePools(saved, updated_pools, i + 1)

\* faulty variant: the ExactOut arm of the slippage check is missing
PriceTooLowExactInOnly(amount, swap_result) ==
    amount.kind = "ExactIn" /\ swap_result.amt < amount.min_output

\* faulty variant: the slippage check also rejects a result equal to the limit
PriceTooLowInclusive(amount, swap_result) ==
    IF amount.kind = "ExactIn"
    THEN swap_result.amt <= amount.min_output
    ELSE swap_result.amt >= amount.max_input

\* the slippage check on swap_result
PriceTooLow(amount, swap_result) ==
    IF amount.kind = "ExactIn"
    THEN swap_result.amt < amount.min_output
    ELSE swap_result.amt > amount.max_input

\* faulty variant: the burn is accepted without debiting the sender
BurnUnpaid(bal, denom, amount, accept_zero) ==
    IF amount = 0 /\ ~accept_zero THEN [ok |-> FALSE, bank |-> bal]
    ELSE [ok |-> bal[denom] >= amount, bank |-> bal]

\* BankMsg::Burn of `amount` of `denom` from the sender; accept_zero is whether
\* the bank of the linked cw-multi-test accepts a burn or mint of amount zero
Burn(bal, denom, amount, accept_zero) ==
    IF amount = 0 /\ ~accept_zero THEN [ok |-> FALSE, bank |-> bal]
    ELSE IF bal[denom] < amount THEN [ok |-> FALSE, bank |-> bal]
    ELSE [ok |-> TRUE, bank |-> [bal EXCEPT ![denom] = @ - amount]]

\* BankSudo::Mint of `amount` of `denom` to the sender
Mint(bal, denom, amount, accept_zero) ==
    IF amount = 0 /\ ~accept_zero THEN [ok |-> FALSE, bank |-> bal]
    ELSE [ok |-> TRUE, bank |-> [bal EXCEPT ![denom] = @ + amount]]

\* faulty variant: the response repeats the caller's exact side
SwapResponseEcho(amount, pay_in, get_out) ==
    IF amount.kind = "ExactIn" THEN In(pay_in) ELSE Out(get_out)

\* SwapResponse.amount: the side opposite the caller's exact side
SwapResponseAmount(amount, pay_in, get_out) ==
    IF amount.kind = "ExactIn" THEN Out(get_out) ELSE In(pay_in)

\* [res, storage, bank]: the response and what the handler wrote
execute_swap(storage, bal, first, route, amount, accept_zero) ==
    LET denom_in == first.denom_in
        denom_out == IF Len(route) > 0 THEN route[Len(route)].denom_out
                     ELSE first.denom_out
        cs == complex_swap(storage, first, route, discard_limit(amount))
        swap_result == cs.res
        narrowed == IF amount.kind = "ExactIn" THEN as_out(swap_result)
                    ELSE as_in(swap_result)
    IN IF ~IsOk(swap_result)
       THEN [res |-> swap_result, storage |-> storage, bank |-> bal]
       ELSE IF narrowed.panics
       THEN [res |-> Panic("wrong variant"), storage |-> storage, bank |-> bal]
       ELSE IF PriceTooLow(amount, swap_result)
       THEN [res |-> Err("PriceTooLow"), storage |-> storage, bank |-> bal]
       ELSE LET saved == SavePools(storage, cs.updated_pools, 1)
                pay_in == IF amount.kind = "ExactIn" THEN amount.input
                          ELSE swap_result.amt
                get_out == IF amount.kind = "ExactIn" THEN swap_result.amt
                           ELSE amount.output
                burn == Burn(bal, denom_in, pay_in, accept_zero)
                mint == Mint(burn.bank, denom_out, get_out, accept_zero)
                output == SwapResponseAmount(amount, pay_in, get_out)
            IN IF ~burn.ok
               THEN [res |-> Err("Bank"), storage |-> saved, bank |-> bal]
               ELSE IF ~mint.ok
               THEN [res |-> Err("Bank"), storage |-> saved, bank |-> burn.bank]
               ELSE [res |-> Ok(output), storage |-> saved, bank |-> mint.bank]

----------------------------------------------------------------------------
(* OsmosisModule::query: the handler is given the storage read-only *)

gamm_denom(pool_id) == <<"gamm/pool", pool_id>>

\* Pool::into_response: the assets and the shares as a coin of the gamm denom
into_response(p, pool_id) ==
    [assets |-> p.assets, shares |-> Coin(p.shares, gamm_denom(pool_id))]

NoState == into_response([assets |-> <<>>, shares |-> 0, fee |-> 0], 0)

\* OsmosisQuery::PoolState: [res, state, storage]
query_pool_state(storage, id) ==
    LET ld == LoadPool(storage, <<>>, id)
    IN IF ~ld.found
       THEN [res |-> Err("NotFound"), state |-> NoState, storage |-> storage]
       ELSE [res |-> OkUnit, state |-> into_response(ld.pool, id),
             storage |-> storage]

\* OsmosisQuery::SpotPrice: [res, price, storage]
query_spot_price(storage, sw, with_swap_fee) ==
    LET ld == LoadPool(storage, <<>>, sw.pool_id)
        sp == spot_price(ld.pool, sw.denom_in, sw.denom_out, with_swap_fee)
    IN IF ~ld.found
       THEN [res |-> Err("NotFound"), price |-> NoPrice, storage |-> storage]
       ELSE [res |-> sp.res, price |-> sp.price, storage |-> storage]

\* faulty variant: the estimate persists the snapshots of its hops
query_estimate_swap_saving(storage, first, route, amount) ==
    LET cs == complex_swap(storage, first, route, amount)
    IN [res |-> cs.res,
        storage |-> IF IsOk(cs.res) THEN SavePools(storage, cs.updated_pools, 1)
                    ELSE storage]

\* OsmosisQuery::EstimateSwap: [res, storage]; `let (amount, _) =` drops the
\* snapshots of complex_swap
query_estimate_swap(storage, first, route, amount) ==
    LET cs == complex_swap(storage, first, route, amount)
    IN [res |-> cs.res, storage |-> storage]

----------------------------------------------------------------------------
(* The inputs of a command *)

FirstSwaps == {Swap(id, di, do) : id \in PoolIds, di \in Denoms, do \in Denoms}
\* a Step leads on to btc, as in the route tests, or back to osmo
StepDenoms == {"osmo", "btc"}
Steps == {Step(id, do) : id \in PoolIds, do \in StepDenoms}
Routes == UNION {[1..n -> Steps] : n \in 0..MaxRoute}

ExactAmounts == {1, 4}
Limits == {0, 4}
LimitedAmounts ==
    {ExactIn(a, l) : a \in ExactAmounts, l \in Limits}
    \cup {ExactOut(a, l) : a \in ExactAmounts, l \in Limits}

NoPoolValue == [assets |-> <<>>, shares |-> 0, fee |-> 0]
SwapAmounts == {In(a) : a \in ExactAmounts} \cup {Out(a) : a \in ExactAmounts}

NoCommand ==
    [op |-> "none", first |-> Swap(0, "-", "-"), route |-> <<>>,
     amount |-> ExactIn(0, 0), exact |-> In(0), with_swap_fee |-> FALSE,
     pre |-> <<>>, pre_bank |-> <<>>, written |-> <<>>, res |-> Err("-"),
     price |-> NoPrice, state |-> NoState]
NoCall ==
    [op |-> "none", denom_in |-> "-", denom_out |-> "-", amount |-> In(0),
     with_swap_fee |-> FALSE, pre |-> NoPoolValue, res |-> Err("-"),
     price |-> NoPrice, got |-> None, limited |-> ExactIn(0, 0)]

----------------------------------------------------------------------------
(* The reflect contract (contracts/reflect/src/contract.rs) *)

Addrs == {"creator", "friend", "random"}

\* the strings given as the new owner; "x" is no valid address
OwnerStrings == Addrs \cup {"x"}

\* the length of each string, which is all MockApi::addr_validate looks at here
HumanLen(a) ==
    IF a = "creator" THEN 7 ELSE IF a = "x" THEN 1 ELSE 6

\* Api::addr_validate: "human address too short" below three characters
addr_validate(a) ==
    IF HumanLen(a) < 3 THEN [ok |-> FALSE, addr |-> a]
    ELSE [ok |-> TRUE, addr |-> a]

State(owner) == [owner |-> owner]

\* SubMsg: SubMsg::new(msg) never asks for a reply and has id 0
SubMsg(msg, id, reply_on) == [msg |-> msg, id |-> id, reply_on |-> reply_on]
SubMsgNew(msg) == SubMsg(msg, 0, "never")

\* the CosmosMsg values of the tests, and lists of them
Msgs == {"BankMsg::Send", "StakingMsg::Delegate"}
MsgLists == UNION {[1..n -> Msgs] : n \in 0..MaxMsgs}

\* SubMsg values: plain ones, and SubMsg::reply_always(.., 123)
SubMsgs ==
    {SubMsgNew(msg) : msg \in Msgs} \cup {SubMsg("BankMsg::Send", 123, "always")}
SubMsgLists == UNION {[1..n -> SubMsgs] : n \in 0..MaxMsgs}

\* Response: its attributes and its messages, in order
Response(attributes, messages) ==
    [attributes |-> attributes, messages |-> messages]
NoResponse == Response(<<>>, <<>>)

\* Result<Response, ReflectError>
RespOk(resp) ==
    [tag |-> "Ok", err |-> "-", expected |-> "-", actual |-> "-",
     response |-> resp]
NotCurrentOwner(expected, actual) ==
    [tag |-> "Err", err |-> "NotCurrentOwner", expected |-> expected,
     actual |-> actual, response |-> NoResponse]
MessagesEmpty ==
    [tag |-> "Err", err |-> "MessagesEmpty", expected |-> "-", actual |-> "-",
     response |-> NoResponse]
StdError(msg) ==
    [tag |-> "Err", err |-> msg, expected |-> "-", actual |-> "-",
     response |-> NoResponse]

\* instantiate: the sender becomes the owner
instantiate(sender) == [res |-> RespOk(NoResponse), state |-> State(sender)]

\* faulty variant: the messages are added in reverse order
add_messages_reversed(msgs) ==
    [i \in 1..Len(msgs) |-> SubMsgNew(msgs[Len(msgs) + 1 - i])]

\* Response::add_messages: each message as SubMsg::new(msg)
add_messages(msgs) == [i \in 1..Len(msgs) |-> SubMsgNew(msgs[i])]

\* execute_reflect: [res, state]
execute_reflect(state, sender, msgs) ==
    IF sender # state.owner
    THEN [res |-> NotCurrentOwner(state.owner, sender), state |-> state]
    ELSE IF Len(msgs) = 0
    THEN [res |-> MessagesEmpty, state |-> state]
    ELSE [res |-> RespOk(Response(<<<<"action", "reflect">>>>,
                                  add_messages(msgs))),
          state |-> state]

\* execute_reflect_subcall: [res, state]
execute_reflect_subcall(state, sender, msgs) ==
    IF sender # state.owner
    THEN [res |-> NotCurrentOwner(state.owner, sender), state |-> state]
    ELSE IF Len(msgs) = 0
    THEN [res |-> MessagesEmpty, state |-> state]
    ELSE [res |-> RespOk(Response(<<<<"action", "reflect_subcall">>>>, msgs)),
          state |-> state]

\* faulty variant: the sender is not compared with the owner
execute_change_owner_by_anyone(state, sender, new_owner) ==
    LET v == addr_validate(new_owner)
    IN IF ~v.ok
       THEN [res |-> StdError("human address too short"), state |-> state]
       ELSE [res |-> RespOk(Response(<<<<"action", "change_owner">>,
                                       <<"owner", new_owner>>>>, <<>>)),
             state |-> [state EXCEPT !.owner = v.addr]]

\* execute_change_owner: [res, state]; config.update saves only on Ok
execute_change_owner(state, sender, new_owner) ==
    LET v == addr_validate(new_owner)
    IN IF sender # state.owner
       THEN [res |-> NotCurrentOwner(state.owner, sender), state |-> state]
       ELSE IF ~v.ok
       THEN [res |-> StdError("human address too short"), state |-> state]
       ELSE [res |-> RespOk(Response(<<<<"action", "change_owner">>,
                                       <<"owner", new_owner>>>>, <<>>)),
             state |-> [state EXCEPT !.owner = v.addr]]

\* query_owner
query_owner(state) == [owner |-> state.owner]

NoExec ==
    [op |-> "none", sender |-> "-", msgs |-> <<>>, new_owner |-> "-",
     pre |-> State("-"), res |-> StdError("-")]

----------------------------------------------------------------------------
(* The tokenfactory contract.  A String is a sequence of tokens; "/" is   *)
(* the separator character and every other token is a run of letters.     *)

MaxDenomLen == 5
Letters == {"factory", "FACTORY", "ab"}
Chars == {"/"} \cup Letters

\* str::len of one token
TokenLen(t) == IF t = "/" THEN 1 ELSE IF t = "ab" THEN 2 ELSE 7

\* String::len
RECURSIVE StrLen(_)
StrLen(s) == IF s = <<>> THEN 0 ELSE TokenLen(Head(s)) + StrLen(Tail(s))

\* str::split('/'): the parts between the separators, "" has one empty part
RECURSIVE Split(_)
Split(s) ==
    IF s = <<>> THEN << <<>> >>
    ELSE LET rest == Split(Tail(s)) IN
         IF Head(s) = "/" THEN << <<>> >> \o rest
         ELSE << <<Head(s)>> \o rest[1] >> \o Tail(rest)

\* str::to_ascii_lowercase
to_ascii_lowercase(s) ==
    [i \in 1..Len(s) |-> IF s[i] = "FACTORY" THEN "factory" ELSE s[i]]

\* str::eq_ignore_ascii_case
eq_ignore_ascii_case(a, b) == to_ascii_lowercase(a) = to_ascii_lowercase(b)

\* faulty variant: the prefix is compared exactly
eq_exact(a, b) == a = b

\* Api::addr_validate on a String: too short below three characters
api_addr_validate(s) == StrLen(s) >= 3

\* OsmosisModule::build_denom: minimum validation of factory/creator/subdenom
build_denom(creator, subdenom) ==
    LET full_denom == <<"factory", "/">> \o creator \o <<"/">> \o subdenom IN
    IF \/ StrLen(full_denom) < 3
       \/ StrLen(full_denom) > 128
       \/ \E i \in 1..Len(creator) : creator[i] = "/"
       \/ StrLen(subdenom) > 44
       \/ StrLen(creator) > 75
    THEN [ok |-> FALSE, denom |-> full_denom]
    ELSE [ok |-> TRUE, denom |-> full_denom]

\* OsmosisQuerier::full_denom answered by the module's FullDenom query
full_denom(creator_addr, subdenom) ==
    IF ~api_addr_validate(creator_addr)
    THEN [ok |-> FALSE, denom |-> <<>>]
    ELSE build_denom(creator_addr, subdenom)

\* OsmosisMsg, the message the contract hands to the chain
OsmosisMsg(type, subdenom, denom, amount, address) ==
    [type |-> type, subdenom |-> subdenom, denom |-> denom,
     amount |-> amount, address |-> address]
OsmosisMsgCreateDenom(subdenom) ==
    OsmosisMsg("CreateDenom", subdenom, <<>>, 0, <<>>)
OsmosisMsgChangeAdmin(denom, new_admin_address) ==
    OsmosisMsg("ChangeAdmin", <<>>, denom, 0, new_admin_address)
mint_contract_tokens(denom, amount, mint_to_address) ==
    OsmosisMsg("MintTokens", <<>>, denom, amount, mint_to_address)
\* burn_from_address is currently disabled: always ""
burn_contract_tokens(denom, amount, burn_from_address) ==
    OsmosisMsg("BurnTokens", <<>>, denom, amount, <<>>)

\* Result<Response<OsmosisMsg>, TokenFactoryError>
TokenOk(method, msg) ==
    [tag |-> "Ok", err |-> "-", message |-> "-",
     attributes |-> << <<"method", method>> >>, messages |-> <<msg>>,
     data |-> None]
TokenFactoryError(err, message) ==
    [tag |-> "Err", err |-> err, message |-> message,
     attributes |-> <<>>, messages |-> <<>>, data |-> None]
InvalidSubdenom == TokenFactoryError("InvalidSubdenom", "-")
InvalidDenom(message) == TokenFactoryError("InvalidDenom", message)
ZeroAmount == TokenFactoryError("ZeroAmount", "-")
BurnFromAddressNotSupported ==
    TokenFactoryError("BurnFromAddressNotSupported", "-")
TokenStd == TokenFactoryError("Std", "human address too short")

\* validate_denom: three parts, the prefix, then the full denom query
validate_denom(denom) ==
    LET tokenfactory_denom_parts == Split(denom) IN
    IF Len(tokenfactory_denom_parts) # 3
    THEN InvalidDenom("denom must have 3 parts separated by /")
    ELSE IF ~eq_ignore_ascii_case(tokenfactory_denom_parts[1], <<"factory">>)
    THEN InvalidDenom("prefix must be 'factory'")
    ELSE IF ~full_denom(tokenfactory_denom_parts[2],
                        tokenfactory_denom_parts[3]).ok
    THEN InvalidDenom("query")
    ELSE TokenOk("-", "-")

\* create_denom
create_denom(subdenom) ==
    IF subdenom = <<>> THEN InvalidSubdenom
    ELSE TokenOk("create_denom", OsmosisMsgCreateDenom(subdenom))

\* change_admin: the address, then the denom
change_admin(denom, new_admin_address) ==
    IF ~api_addr_validate(new_admin_address) THEN TokenStd
    ELSE IF ~IsOk(validate_denom(denom)) THEN validate_denom(denom)
    ELSE TokenOk("change_admin", OsmosisMsgChangeAdmin(denom, new_admin_address))

\* mint_tokens: the address, then the amount, then the denom
mint_tokens(denom, amount, mint_to_address) ==
    IF ~api_addr_validate(mint_to_address) THEN TokenStd
    ELSE IF amount = 0 THEN ZeroAmount
    ELSE IF ~IsOk(validate_denom(denom)) THEN validate_denom(denom)
    ELSE TokenOk("mint_tokens",
                 mint_contract_tokens(denom, amount, mint_to_address))

\* faulty variant: the amount is checked before the address
burn_tokens_amount_first(denom, amount, burn_from_address) ==
    IF amount = 0 THEN ZeroAmount
    ELSE IF burn_from_address # <<>> THEN BurnFromAddressNotSupported
    ELSE IF ~IsOk(validate_denom(denom)) THEN validate_denom(denom)
    ELSE TokenOk("burn_tokens",
                 burn_contract_tokens(denom, amount, burn_from_address))

\* burn_tokens: the address, then the amount, then the denom
burn_tokens(denom, amount, burn_from_address) ==
    IF burn_from_address # <<>> THEN BurnFromAddressNotSupported
    ELSE IF amount = 0 THEN ZeroAmount
    ELSE IF ~IsOk(validate_denom(denom)) THEN validate_denom(denom)
    ELSE TokenOk("burn_tokens",
                 burn_contract_tokens(denom, amount, burn_from_address))

NoTokenCall ==
    [op |-> "none", subdenom |-> <<>>, denom |-> <<>>, amount |-> 0,
     address |-> <<>>, res |-> TokenFactoryError("-", "-")]

----------------------------------------------------------------------------
(* The App's block clock *)

\* How many seconds per block
BLOCK_TIME == 5

MaxHeight == 6

BlockInfo(height, time) == [height |-> height, time |-> time]

\* OsmosisApp::new: height and time are counted from the App's first block
AppNew == BlockInfo(0, 0)

Max(a, b) == IF a >= b THEN a ELSE b

\* advance_blocks
advance_blocks(b, blocks) ==
    BlockInfo(b.height + blocks, b.time + BLOCK_TIME * blocks)

\* advance_seconds
advance_seconds(b, seconds) ==
    BlockInfo(b.height + Max(1, seconds \div BLOCK_TIME), b.time + seconds)

\* next_block: advance_blocks(1)
next_block(b) == advance_blocks(b, 1)

NoBlockCall == [op |-> "none", arg |-> 0, pre |-> AppNew]

----------------------------------------------------------------------------
(* The App with its pools set up, as in the tests of multitest.rs *)

Pool1 == PoolNew(Coin(12, "osmo"), Coin(6, "atom"))
Pool2 == PoolNew(Coin(8, "atom"), Coin(4, "btc"))

\* set_pool for both pools, or for pool 1 alone
SeedStores == {(1 :> Pool1) @@ (2 :> Pool2), (1 :> Pool1)}

SeedBank ==
    [d \in Denoms |-> IF d = "osmo" THEN 6 ELSE IF d = "atom" THEN 5 ELSE 0]

Init ==
    /\ store \in SeedStores
    /\ bank = SeedBank
    /\ last = NoCommand
    /\ cmds = 0
    /\ pool = NoPoolValue
    /\ call = NoCall
    /\ calls = 0
    /\ config = State("creator")
    /\ rcall = NoExec
    /\ rcalls = 0
    /\ tcall = NoTokenCall
    /\ block = AppNew
    /\ bcall = NoBlockCall

\* App::execute(trader, OsmosisMsg::Swap{..}): the module's handler inside the
\* App's storage transaction, which is committed on Ok and dropped on Err.
\* Whether the bank accepts a zero amount depends on the linked cw-multi-test.
ExecuteSwap ==
    /\ cmds < MaxCmds
    /\ last = NoCommand
    /\ \E first \in FirstSwaps, route \in Routes, amount \in LimitedAmounts :
        \E r \in {execute_swap(store, bank, first, route, amount, az) :
                     az \in BOOLEAN} :
          /\ store' = IF IsOk(r.res) THEN r.storage ELSE store
          /\ bank' = IF IsOk(r.res) THEN r.bank ELSE bank
          /\ last' = [NoCommand EXCEPT
                         !.op = "Swap", !.first = first, !.route = route,
                         !.amount = amount, !.exact = discard_limit(amount),
                         !.pre = store, !.pre_bank = bank,
                         !.written = r.storage, !.res = r.res]
    /\ cmds' = cmds + 1
    /\ UNCHANGED <<pool, call, calls, config, rcall, rcalls,
                   tcall, block, bcall>>

\* app.wrap().query(OsmosisQuery::PoolState{id})
QueryPoolState ==
    /\ cmds < MaxCmds
    /\ last = NoCommand
    /\ \E id \in PoolIds :
          LET r == query_pool_state(store, id)
          IN /\ store' = r.storage
             /\ last' = [NoCommand EXCEPT
                            !.op = "PoolState", !.first = Swap(id, "-", "-"),
                            !.pre = store, !.pre_bank = bank,
                            !.written = r.storage, !.res = r.res,
                            !.state = r.state]
    /\ cmds' = cmds + 1
    /\ UNCHANGED <<bank, pool, call, calls, config, rcall, rcalls,
                   tcall, block, bcall>>

\* app.wrap().query(OsmosisQuery::SpotPrice{swap, with_swap_fee})
QuerySpotPrice ==
    /\ cmds < MaxCmds
    /\ last = NoCommand
    /\ \E sw \in FirstSwaps, with_swap_fee \in BOOLEAN :
          LET r == query_spot_price(store, sw, with_swap_fee)
          IN /\ store' = r.storage
             /\ last' = [NoCommand EXCEPT
                            !.op = "SpotPrice", !.first = sw,
                            !.with_swap_fee = with_swap_fee,
                            !.pre = store, !.pre_bank = bank,
                            !.written = r.storage, !.res = r.res,
                            !.price = r.price]
    /\ cmds' = cmds + 1
    /\ UNCHANGED <<bank, pool, call, calls, config, rcall, rcalls,
                   tcall, block, bcall>>

\* app.wrap().query(OsmosisQuery::EstimateSwap{sender, first, route, amount})
QueryEstimateSwap ==
    /\ cmds < MaxCmds
    /\ last = NoCommand
    /\ \E first \in FirstSwaps, route \in Routes, amount \in SwapAmounts :
          LET r == query_estimate_swap(store, first, route, amount)
          IN /\ store' = r.storage
             /\ last' = [NoCommand EXCEPT
                            !.op = "EstimateSwap", !.first = first,
                            !.route = route, !.exact = amount,
                            !.pre = store, !.pre_bank = bank,
                            !.written = r.storage, !.res = r.res]
    /\ cmds' = cmds + 1
    /\ UNCHANGED <<bank, pool, call, calls, config, rcall, rcalls,
                   tcall, block, bcall>>

\* the caller takes the response; a panic has ended the test instead
Return ==
    /\ last # NoCommand
    /\ last.res.tag # "Panic"
    /\ last' = NoCommand
    /\ UNCHANGED <<store, bank, cmds, pool, call, calls, config, rcall, rcalls,
                   tcall, block, bcall>>

Next ==
    \/ ExecuteSwap
    \/ QueryPoolState
    \/ QuerySpotPrice
    \/ QueryEstimateSwap
    \/ Return

Spec == Init /\ [][Next]_vars

----------------------------------------------------------------------------
(* A Pool value called directly through its pub methods *)

Fees == {0, FEE_PERMILLE, 500}
CallAmounts == {0, 1, 2, 3, 5, 8}
SetAmounts == {0, 7}

InitPool ==
    /\ store = (1 :> Pool1)
    /\ bank = SeedBank
    /\ last = NoCommand
    /\ cmds = 0
    /\ \E a \in 0..MaxBal, b \in 0..MaxBal, fee \in Fees :
          pool = PoolWithFee(Coin(a, "osmo"), Coin(b, "atom"), fee)
    /\ call = NoCall
    /\ calls = 0
    /\ config = State("creator")
    /\ rcall = NoExec
    /\ rcalls = 0
    /\ tcall = NoTokenCall
    /\ block = AppNew
    /\ bcall = NoBlockCall

\* pool.swap(denom_in, denom_out, amount)
CallSwap ==
    /\ calls < MaxCalls
    /\ call = NoCall
    /\ \E denom_in \in Denoms, denom_out \in Denoms, x \in CallAmounts,
          side \in {"In", "Out"} :
          LET amount == [side |-> side, amt |-> x]
              r == swap(pool, denom_in, denom_out, amount)
          IN /\ pool' = r.pool
             /\ call' = [op |-> "swap", denom_in |-> denom_in,
                         denom_out |-> denom_out, amount |-> amount,
                         with_swap_fee |-> FALSE, pre |-> pool, res |-> r.res,
                         price |-> NoPrice, got |-> None,
                         limited |-> ExactIn(0, 0)]
    /\ calls' = calls + 1
    /\ UNCHANGED <<store, bank, last, cmds, config, rcall, rcalls,
                   tcall, block, bcall>>

\* pool.spot_price(denom_in, denom_out, with_swap_fee)
CallSpotPrice ==
    /\ calls < MaxCalls
    /\ call = NoCall
    /\ \E denom_in \in Denoms, denom_out \in Denoms, with_swap_fee \in BOOLEAN :
          LET r == spot_price(pool, denom_in, denom_out, with_swap_fee)
          IN call' = [op |-> "spot_price", denom_in |-> denom_in,
                      denom_out |-> denom_out, amount |-> In(0),
                      with_swap_fee |-> with_swap_fee, pre |-> pool,
                      res |-> r.res, price |-> r.price, got |-> None,
                      limited |-> ExactIn(0, 0)]
    /\ calls' = calls + 1
    /\ UNCHANGED <<store, bank, last, cmds, pool, config, rcall, rcalls,
                   tcall, block, bcall>>

\* pool.swap_with_limit(denom_in, denom_out, amount)
CallSwapWithLimit ==
    /\ calls < MaxCalls
    /\ call = NoCall
    /\ \E denom_in \in Denoms, denom_out \in Denoms, amount \in LimitedAmounts :
          LET r == swap_with_limit(pool, denom_in, denom_out, amount)
          IN /\ pool' = r.pool
             /\ call' = [NoCall EXCEPT
                            !.op = "swap_with_limit", !.denom_in = denom_in,
                            !.denom_out = denom_out,
                            !.amount = discard_limit(amount),
                            !.limited = amount, !.pre = pool, !.res = r.res]
    /\ calls' = calls + 1
    /\ UNCHANGED <<store, bank, last, cmds, config, rcall, rcalls,
                   tcall, block, bcall>>

\* pool.set_amount(denom, amount)
CallSetAmount ==
    /\ calls < MaxCalls
    /\ call = NoCall
    /\ \E denom \in Denoms, amount \in SetAmounts :
          LET r == set_amount(pool, denom, amount)
          IN /\ pool' = r.pool
             /\ call' = [NoCall EXCEPT
                            !.op = "set_amount", !.denom_in = denom,
                            !.amount = In(amount), !.pre = pool,
                            !.res = r.res]
    /\ calls' = calls + 1
    /\ UNCHANGED <<store, bank, last, cmds, config, rcall, rcalls,
                   tcall, block, bcall>>

\* pool.get_amount(denom)
CallGetAmount ==
    /\ calls < MaxCalls
    /\ call = NoCall
    /\ \E denom \in Denoms :
          call' = [NoCall EXCEPT
                      !.op = "get_amount", !.denom_in = denom, !.pre = pool,
                      !.res = OkUnit, !.got = get_amount(pool, denom)]
    /\ calls' = calls + 1
    /\ UNCHANGED <<store, bank, last, cmds, pool, config, rcall, rcalls,
                   tcall, block, bcall>>

\* the caller takes the result; a panic has ended the test instead
CallReturn ==
    /\ call # NoCall
    /\ call.res.tag # "Panic"
    /\ call' = NoCall
    /\ UNCHANGED <<store, bank, last, cmds, pool, calls, config, rcall, rcalls,
                   tcall, block, bcall>>

NextPool ==
    \/ CallSwap
    \/ CallSpotPrice
    \/ CallSwapWithLimit
    \/ CallSetAmount
    \/ CallGetAmount
    \/ CallReturn

SpecPool == InitPool /\ [][NextPool]_vars

----------------------------------------------------------------------------
(* The reflect contract, instantiated and then executed by any sender *)

InitReflect ==
    /\ store = (1 :> Pool1)
    /\ bank = SeedBank
    /\ last = NoCommand
    /\ cmds = 0
    /\ pool = NoPoolValue
    /\ call = NoCall
    /\ calls = 0
    /\ \E sender \in Addrs : config = instantiate(sender).state
    /\ rcall = NoExec
    /\ rcalls = 0
    /\ tcall = NoTokenCall
    /\ block = AppNew
    /\ bcall = NoBlockCall

\* execute(.., ExecuteMsg::ReflectMsg{msgs})
ExecuteReflectMsg ==
    /\ rcalls < MaxExecs
    /\ rcall = NoExec
    /\ \E sender \in Addrs, msgs \in MsgLists :
          LET r == execute_reflect(config, sender, msgs)
          IN /\ config' = r.state
             /\ rcall' = [NoExec EXCEPT !.op = "ReflectMsg", !.sender = sender,
                                        !.msgs = msgs, !.pre = config,
                                        !.res = r.res]
    /\ rcalls' = rcalls + 1
    /\ UNCHANGED <<store, bank, last, cmds, pool, call, calls,
                   tcall, block, bcall>>

\* execute(.., ExecuteMsg::ReflectSubMsg{msgs})
ExecuteReflectSubMsg ==
    /\ rcalls < MaxExecs
    /\ rcall = NoExec
    /\ \E sender \in Addrs, msgs \in SubMsgLists :
          LET r == execute_reflect_subcall(config, sender, msgs)
          IN /\ config' = r.state
             /\ rcall' = [NoExec EXCEPT !.op = "ReflectSubMsg",
                                        !.sender = sender, !.msgs = msgs,
                                        !.pre = config, !.res = r.res]
    /\ rcalls' = rcalls + 1
    /\ UNCHANGED <<store, bank, last, cmds, pool, call, calls,
                   tcall, block, bcall>>

\* execute(.., ExecuteMsg::ChangeOwner{owner})
ExecuteChangeOwner ==
    /\ rcalls < MaxExecs
    /\ rcall = NoExec
    /\ \E sender \in Addrs, new_owner \in OwnerStrings :
          LET r == execute_change_owner(config, sender, new_owner)
          IN /\ config' = r.state
             /\ rcall' = [NoExec EXCEPT !.op = "ChangeOwner", !.sender = sender,
                                        !.new_owner = new_owner,
                                        !.pre = config, !.res = r.res]
    /\ rcalls' = rcalls + 1
    /\ UNCHANGED <<store, bank, last, cmds, pool, call, calls,
                   tcall, block, bcall>>

\* the caller takes the result
ExecuteReturn ==
    /\ rcall # NoExec
    /\ rcall' = NoExec
    /\ UNCHANGED <<store, bank, last, cmds, pool, call, calls, config, rcalls,
                   tcall, block, bcall>>

NextReflect ==
    \/ ExecuteReflectMsg
    \/ ExecuteReflectSubMsg
    \/ ExecuteChangeOwner
    \/ ExecuteReturn

SpecReflect == InitReflect /\ [][NextReflect]_vars

----------------------------------------------------------------------------
(* The tokenfactory contract executed by any sender *)

DenomStrings == UNION {[1..n -> Chars] : n \in 0..MaxDenomLen}
Subdenoms == {<<>>, <<"ab">>}
AddressStrings == {<<>>, <<"ab">>, <<"ab", "ab">>}
TokenAmounts == {0, 1}

InitToken ==
    /\ store = (1 :> Pool1)
    /\ bank = SeedBank
    /\ last = NoCommand
    /\ cmds = 0
    /\ pool = NoPoolValue
    /\ call = NoCall
    /\ calls = 0
    /\ config = State("creator")
    /\ rcall = NoExec
    /\ rcalls = 0
    /\ tcall = NoTokenCall
    /\ block = AppNew
    /\ bcall = NoBlockCall

\* execute(.., ExecuteMsg::CreateDenom{subdenom})
ExecuteCreateDenom ==
    /\ tcall = NoTokenCall
    /\ \E subdenom \in Subdenoms :
          tcall' = [NoTokenCall EXCEPT !.op = "CreateDenom",
                                       !.subdenom = subdenom,
                                       !.res = create_denom(subdenom)]
    /\ UNCHANGED <<store, bank, last, cmds, pool, call, calls, config, rcall,
                   rcalls, block, bcall>>

\* execute(.., ExecuteMsg::ChangeAdmin{denom, new_admin_address})
ExecuteChangeAdmin ==
    /\ tcall = NoTokenCall
    /\ \E denom \in DenomStrings, new_admin_address \in AddressStrings :
          tcall' = [NoTokenCall EXCEPT
                       !.op = "ChangeAdmin", !.denom = denom,
                       !.address = new_admin_address,
                       !.res = change_admin(denom, new_admin_address)]
    /\ UNCHANGED <<store, bank, last, cmds, pool, call, calls, config, rcall,
                   rcalls, block, bcall>>

\* execute(.., ExecuteMsg::MintTokens{denom, amount, mint_to_address})
ExecuteMintTokens ==
    /\ tcall = NoTokenCall
    /\ \E denom \in DenomStrings, amount \in TokenAmounts,
          mint_to_address \in AddressStrings :
          tcall' = [NoTokenCall EXCEPT
                       !.op = "MintTokens", !.denom = denom,
                       !.amount = amount, !.address = mint_to_address,
                       !.res = mint_tokens(denom, amount, mint_to_address)]
    /\ UNCHANGED <<store, bank, last, cmds, pool, call, calls, config, rcall,
                   rcalls, block, bcall>>

\* execute(.., ExecuteMsg::BurnTokens{denom, amount, burn_from_address})
ExecuteBurnTokens ==
    /\ tcall = NoTokenCall
    /\ \E denom \in DenomStrings, amount \in TokenAmounts,
          burn_from_address \in AddressStrings :
          tcall' = [NoTokenCall EXCEPT
                       !.op = "BurnTokens", !.denom = denom,
                       !.amount = amount, !.address = burn_from_address,
                       !.res = burn_tokens(denom, amount, burn_from_address)]
    /\ UNCHANGED <<store, bank, last, cmds, pool, call, calls, config, rcall,
                   rcalls, block, bcall>>

\* the caller takes the result
TokenReturn ==
    /\ tcall # NoTokenCall
    /\ tcall' = NoTokenCall
    /\ UNCHANGED <<store, bank, last, cmds, pool, call, calls, config, rcall,
                   rcalls, block, bcall>>

NextToken ==
    \/ ExecuteCreateDenom
    \/ ExecuteChangeAdmin
    \/ ExecuteMintTokens
    \/ ExecuteBurnTokens
    \/ TokenReturn

SpecToken == InitToken /\ [][NextToken]_vars

----------------------------------------------------------------------------
(* The App's block clock advanced by the test helpers *)

\* a fresh OsmosisApp
InitClock ==
    /\ store = (1 :> Pool1)
    /\ bank = SeedBank
    /\ last = NoCommand
    /\ cmds = 0
    /\ pool = NoPoolValue
    /\ call = NoCall
    /\ calls = 0
    /\ config = State("creator")
    /\ rcall = NoExec
    /\ rcalls = 0
    /\ tcall = NoTokenCall
    /\ block = AppNew
    /\ bcall = NoBlockCall

BlockCounts == {0, 1, 2, 3}
SecondCounts == {0, 1, 4, 5, 7, 10, 12}

\* app.advance_blocks(blocks)
AdvanceBlocks ==
    /\ block.height < MaxHeight
    /\ \E blocks \in BlockCounts :
          /\ block' = advance_blocks(block, blocks)
          /\ bcall' = [op |-> "advance_blocks", arg |-> blocks, pre |-> block]
    /\ UNCHANGED <<store, bank, last, cmds, pool, call, calls, config, rcall,
                   rcalls, tcall>>

\* app.advance_seconds(seconds)
AdvanceSeconds ==
    /\ block.height < MaxHeight
    /\ \E seconds \in SecondCounts :
          /\ block' = advance_seconds(block, seconds)
          /\ bcall' = [op |-> "advance_seconds", arg |-> seconds,
                       pre |-> block]
    /\ UNCHANGED <<store, bank, last, cmds, pool, call, calls, config, rcall,
                   rcalls, tcall>>

\* app.next_block()
NextBlock ==
    /\ block.height < MaxHeight
    /\ block' = next_block(block)
    /\ bcall' = [op |-> "next_block", arg |-> 1, pre |-> block]
    /\ UNCHANGED <<store, bank, last, cmds, pool, call, calls, config, rcall,
                   rcalls, tcall>>

NextClock ==
    \/ AdvanceBlocks
    \/ AdvanceSeconds
    \/ NextBlock

SpecClock == InitClock /\ [][NextClock]_vars

----------------------------------------------------------------------------
(* Properties of the Swap command *)

\* what complex_swap returns for the last command, from the store before it
Routed ==
    complex_swap(last.pre, last.first, last.route, discard_limit(last.amount))

\* the caller's bound is violated by the routed amount
ViolatesBound(amount, routed) ==
    \/ amount.kind = "ExactIn" /\ routed.amt < amount.min_output
    \/ amount.kind = "ExactOut" /\ routed.amt > amount.max_input

\* a snapshot collected by the router that differs from the stored pool
SomeSnapshotDiffers ==
    \E i \in 1..Len(Routed.updated_pools) :
        Routed.updated_pools[i][2] # last.pre[Routed.updated_pools[i][1]]

\* C1: a Swap command whose routed result violates the caller's bound fails
\* with PriceTooLow, the handler has written no snapshot, and every stored
\* pool is what it was before the command.
C1_PriceTooLowIsAtomic ==
    (last.op = "Swap" /\ IsOk(Routed.res)
        /\ ViolatesBound(last.amount, Routed.res))
    => /\ last.res = Err("PriceTooLow")
       /\ last.written = last.pre
       /\ store = last.pre
       /\ bank = last.pre_bank

\* a routed command of more than one hop was rejected although its hops
\* had produced snapshots that differ from the stored pools
C1_Witness ==
    /\ last.op = "Swap"
    /\ Len(last.route) >= 1
    /\ IsOk(Routed.res)
    /\ last.amount.kind = "ExactOut"
    /\ last.res = Err("PriceTooLow")
    /\ SomeSnapshotDiffers

\* C2: with every hop valid, the command returns PriceTooLow if and only if
\* the routed output is below min_output (ExactIn) or the required input is
\* above max_input (ExactOut); a result equal to the limit is accepted.
C2_BoundIsExact ==
    (last.op = "Swap" /\ IsOk(Routed.res))
    => (last.res = Err("PriceTooLow")
            <=> ViolatesBound(last.amount, Routed.res))

\* a command whose routed amount equals its limit went through
C2_Witness ==
    /\ last.op = "Swap"
    /\ IsOk(Routed.res)
    /\ last.amount.kind = "ExactOut"
    /\ Routed.res.amt = last.amount.max_input
    /\ IsOk(last.res)
    /\ store # last.pre

\* the hops of the last command, in route order
Hops == Swaps(last.first, last.route)

DistinctPools ==
    \A i, j \in 1..Len(Hops) : i # j => Hops[i].pool_id # Hops[j].pool_id

Balance(p, denom) == get_amount(p, denom).val

\* exact-in chaining: the amount entering hop i when hops run first to last,
\* each on its stored pool; Entering(Len(Hops) + 1) is what the last hop pays
RECURSIVE Entering(_)
Entering(i) ==
    IF i = 1 THEN last.amount.input
    ELSE LET h == Hops[i - 1]
         IN swap(last.pre[h.pool_id], h.denom_in, h.denom_out,
                 In(Entering(i - 1))).res.amt

\* exact-out chaining: the output demanded of hop i when hops are solved last
\* to first, and the input hop i requires for it
RECURSIVE Demanded(_)
Required(i) ==
    LET h == Hops[i]
    IN swap(last.pre[h.pool_id], h.denom_in, h.denom_out,
            Out(Demanded(i))).res.amt
Demanded(i) ==
    IF i = Len(Hops) THEN last.amount.output ELSE Required(i + 1)

\* hop i left its pool stored with denom_in raised by `paid` and denom_out
\* lowered by `got`
HopStored(i, paid, got) ==
    LET h == Hops[i]
        before == last.pre[h.pool_id]
        after == store[h.pool_id]
    IN /\ Balance(after, h.denom_in) = Balance(before, h.denom_in) + paid
       /\ Balance(after, h.denom_out) = Balance(before, h.denom_out) - got

ExactInChained ==
    /\ last.res = Ok(Out(Entering(Len(Hops) + 1)))
    /\ \A i \in 1..Len(Hops) : HopStored(i, Entering(i), Entering(i + 1))

ExactOutChained ==
    /\ last.res = Ok(In(Required(1)))
    /\ \A i \in 1..Len(Hops) : HopStored(i, Required(i), Demanded(i))

\* C3: a successful ExactIn command over hops on distinct pools runs the hops
\* first to last, feeds each hop's Out into the next hop, answers Out(output
\* of the last hop) and stores every pool of the route with denom_in raised
\* by what entered the hop and denom_out lowered by what left it.
C3_ExactInRoute ==
    (last.op = "Swap" /\ last.amount.kind = "ExactIn" /\ IsOk(last.res)
        /\ DistinctPools)
    => ExactInChained

\* C4: a successful ExactOut command over hops on distinct pools solves the
\* hops last to first, demands of each hop the input the next one requires,
\* answers In(input required by the first hop) and stores every pool of the
\* route with denom_in raised by its required input and denom_out lowered by
\* its demanded output.
C4_ExactOutRoute ==
    (last.op = "Swap" /\ last.amount.kind = "ExactOut" /\ IsOk(last.res)
        /\ DistinctPools)
    => ExactOutChained

\* Supporting checks: C3 and C4 hold of every route whose hops each trade
\* two different denoms.
HopsTradeTwoDenoms == \A i \in 1..Len(Hops) : Hops[i].denom_in # Hops[i].denom_out

C3_TwoDenomRoutes ==
    (last.op = "Swap" /\ last.amount.kind = "ExactIn" /\ IsOk(last.res)
        /\ DistinctPools /\ HopsTradeTwoDenoms)
    => ExactInChained

C4_TwoDenomRoutes ==
    (last.op = "Swap" /\ last.amount.kind = "ExactOut" /\ IsOk(last.res)
        /\ DistinctPools /\ HopsTradeTwoDenoms)
    => ExactOutChained

----------------------------------------------------------------------------
(* Properties of Pool::swap and Pool::spot_price called directly *)

Present(p, denom) == \E i \in 1..Len(p.assets) : p.assets[i].denom = denom
BothPresent == Present(call.pre, call.denom_in) /\ Present(call.pre, call.denom_out)

\* the balances the call found, and the fee's complement
BalIn == Balance(call.pre, call.denom_in)
BalOut == Balance(call.pre, call.denom_out)
Keep == DECIMAL_FRACTIONAL - call.pre.fee

SwapIn == call.op = "swap" /\ call.amount.side = "In"
SwapOut == call.op = "swap" /\ call.amount.side = "Out"
SwapOk == call.op = "swap" /\ IsOk(call.res)

\* a swap of a positive amount of one denom for another, on a pool that
\* holds some of both
PlainSwap ==
    /\ call.op = "swap"
    /\ call.denom_in # call.denom_out
    /\ call.amount.amt > 0
    /\ BothPresent
    /\ BalIn > 0
    /\ BalOut > 0

\* floor(input * (1 - fee))
InputMinusFee == (call.amount.amt * Keep) \div DECIMAL_FRACTIONAL

\* C5: Pool::swap with In(input) and both denoms present returns
\* Out(bal_out - floor(bal_in*bal_out / (bal_in + floor(input*(1-fee))))),
\* whenever bal_in + floor(input*(1-fee)) > 0: the fee is taken from the
\* input only.
C5_ExactInPayout ==
    (SwapIn /\ BothPresent /\ BalIn + InputMinusFee > 0)
    => call.res =
          Ok(Out(BalOut - (BalIn * BalOut) \div (BalIn + InputMinusFee)))

\* an exact-in swap at the 0.3% fee that lost part of its input to the fee
\* and still paid out
C5_Witness ==
    /\ SwapIn
    /\ PlainSwap
    /\ call.pre.fee = FEE_PERMILLE
    /\ InputMinusFee < call.amount.amt
    /\ IsOk(call.res)
    /\ call.res.amt > 0
    /\ Balance(pool, call.denom_out) = BalOut - call.res.amt

\* the smallest integer not less than n / d
CeilDiv(n, d) == (n + d - 1) \div d

\* floor(bal_in*bal_out / (bal_out - output))
InWithoutFee == (BalIn * BalOut) \div (BalOut - call.amount.amt)

\* C6: Pool::swap with Out(output), output < bal_out, returns In(p) with p
\* the ceiling of (in_without_fee - bal_in) / (1 - fee), whether or not the
\* quotient is an integer (stated of plain swaps).
C6_PayInIsCeiling ==
    (SwapOut /\ PlainSwap /\ IsOk(call.res))
    => call.res.amt = CeilDiv((InWithoutFee - BalIn) * DECIMAL_FRACTIONAL, Keep)

\* what the swap paid into and out of the pool
PaidIn == IF call.amount.side = "In" THEN call.amount.amt ELSE call.res.amt
PaidOut == IF call.amount.side = "In" THEN call.res.amt ELSE call.amount.amt
FinalIn == BalIn + PaidIn
FinalOut == BalOut - PaidOut

\* a swap of one denom for another stores the final balances it computed
StoredFinals ==
    call.denom_in # call.denom_out
    => /\ Balance(pool, call.denom_in) = FinalIn
       /\ Balance(pool, call.denom_out) = FinalOut

\* C7: with fee > 0, the product of the two balances after a successful
\* swap is at least the product before it (stated of plain swaps that
\* leave some of denom_out in the pool).
C7_ProductNeverFalls ==
    (SwapOk /\ PlainSwap /\ call.pre.fee > 0 /\ FinalOut > 0)
    => Balance(pool, call.denom_in) * Balance(pool, call.denom_out)
          >= BalIn * BalOut

\* C8 as stated: with fee = 0, a successful swap leaves the product of the
\* two balances exactly equal to its value before the swap (stated of plain
\* swaps).
C8_ProductIsKept ==
    (SwapOk /\ PlainSwap /\ call.pre.fee = 0)
    => Balance(pool, call.denom_in) * Balance(pool, call.denom_out)
          = BalIn * BalOut

\* C8 as amended: with fee = 0, a successful swap leaves the product within
\* one rounding step of its value before the swap: exact-in never above it
\* and less than final_in below it, exact-out never below it and at most
\* final_out above it.
C8_ProductWithinRounding ==
    (SwapOk /\ call.pre.fee = 0)
    => /\ StoredFinals
       /\ IF call.amount.side = "In"
          THEN /\ FinalIn * FinalOut <= BalIn * BalOut
               /\ FinalIn * FinalOut > BalIn * BalOut - FinalIn
          ELSE /\ FinalIn * FinalOut >= BalIn * BalOut
               /\ FinalIn * FinalOut <= BalIn * BalOut + FinalOut

\* a fee-free exact-out swap between two denoms that moved the product
C8_Witness ==
    /\ SwapOk
    /\ PlainSwap
    /\ call.pre.fee = 0
    /\ call.amount.side = "Out"
    /\ Balance(pool, call.denom_in) * Balance(pool, call.denom_out)
          > BalIn * BalOut

\* C9: if an exact-out estimate of `output` returns In(p), an exact-in
\* estimate of p on the same pool state returns Out(output), and an
\* exact-out estimate of that output returns In(p) again (stated of plain
\* swaps at the fee of Pool::new).
C9_RoundTrip ==
    (SwapOut /\ PlainSwap /\ IsOk(call.res) /\ call.pre.fee = FEE_PERMILLE)
    => LET back == swap(call.pre, call.denom_in, call.denom_out,
                        In(call.res.amt)).res
       IN /\ back = Ok(Out(call.amount.amt))
          /\ swap(call.pre, call.denom_in, call.denom_out, Out(back.amt)).res
                = call.res

\* C10: Pool::swap and Pool::spot_price with a denom_in or denom_out that is
\* not among the pool's assets return AssetNotInPool and leave the pool as
\* it was.
C10_AbsentDenom ==
    (call.op \in {"swap", "spot_price"} /\ ~BothPresent)
    => /\ call.res = Err("AssetNotInPool")
       /\ pool = call.pre

\* a swap of a positive amount from a present denom into an absent one
C10_Witness ==
    /\ call.op = "swap"
    /\ Present(call.pre, call.denom_in)
    /\ ~Present(call.pre, call.denom_out)
    /\ call.amount.amt > 0
    /\ BalIn > 0
    /\ call.res = Err("AssetNotInPool")

\* C11: an exact-out swap asking for the whole denom_out balance or more fails
\* with an error value (it does not panic) and leaves the pool as it was.
C11_DrainIsAnError ==
    (SwapOut /\ PlainSwap /\ call.amount.amt >= BalOut)
    => /\ call.res.tag = "Err"
       /\ pool = call.pre

\* C16: Pool::spot_price with both denoms present and positive balances
\* returns bal_out * (1 - fee) / bal_in with the fee and bal_out / bal_in
\* without it, nothing being rounded before the division.
C16_SpotPriceIsExact ==
    (call.op = "spot_price" /\ BothPresent /\ BalIn > 0 /\ BalOut > 0
        /\ call.denom_in # call.denom_out)
    => /\ call.res = OkUnit
       /\ call.price.num * DECIMAL_FRACTIONAL * BalIn
             = call.price.den * BalOut
                 * (IF call.with_swap_fee THEN Keep ELSE DECIMAL_FRACTIONAL)

\* Supporting check: without the fee the price is exactly bal_out / bal_in.
C16_PriceWithoutFee ==
    (call.op = "spot_price" /\ BothPresent /\ BalIn > 0 /\ ~call.with_swap_fee)
    => /\ call.res = OkUnit
       /\ call.price.num * BalIn = call.price.den * BalOut

\* C19: after a successful Pool::swap the denom_in balance is higher by the
\* amount paid in and the denom_out balance lower by the amount paid out,
\* for every choice of present denoms; when denom_in and denom_out are the
\* same denom, its balance has moved by the amount paid in less the amount
\* paid out.
C19_HopAccounting ==
    (SwapOk /\ call.amount.amt > 0 /\ BalIn > 0 /\ BalOut > 0)
    => IF call.denom_in # call.denom_out
       THEN /\ Balance(pool, call.denom_in) = BalIn + PaidIn
            /\ Balance(pool, call.denom_out) = BalOut - PaidOut
       ELSE Balance(pool, call.denom_in) = BalIn + PaidIn - PaidOut

\* Supporting check: the accounting holds of every swap between two
\* different denoms.
C19_TwoDenomAccounting ==
    (SwapOk /\ call.denom_in # call.denom_out)
    => /\ Balance(pool, call.denom_in) = BalIn + PaidIn
       /\ Balance(pool, call.denom_out) = BalOut - PaidOut

----------------------------------------------------------------------------
(* Properties of the queries *)

IsQuery == last.op \in {"PoolState", "SpotPrice", "EstimateSwap"}

\* what complex_swap computes for the last EstimateSwap, from the store
\* before it
Estimated == complex_swap(last.pre, last.first, last.route, last.exact)

\* C12: a PoolState, SpotPrice or EstimateSwap query, whether it succeeds or
\* fails, leaves every stored pool as it was, so the same EstimateSwap asked
\* again returns the same amount.
C12_QueriesReadOnly ==
    IsQuery
    => /\ store = last.pre
       /\ last.written = last.pre
       /\ bank = last.pre_bank
       /\ last.op = "EstimateSwap"
            => query_estimate_swap(store, last.first, last.route,
                                   last.exact).res = last.res

\* an estimate over a route succeeded, and its hops had computed snapshots
\* that differ from the stored pools
C12_Witness ==
    /\ last.op = "EstimateSwap"
    /\ Len(last.route) >= 1
    /\ IsOk(last.res)
    /\ last.res.amt > 0
    /\ HopsTradeTwoDenoms
    /\ \E i \in 1..Len(Estimated.updated_pools) :
          Estimated.updated_pools[i][2] # store[Estimated.updated_pools[i][1]]

\* C13: a successful Swap command answers the amount that EstimateSwap
\* returns from the same store for the same first, route and exact side.
C13_EstimateMatchesSwap ==
    (last.op = "Swap" /\ IsOk(last.res))
    => query_estimate_swap(last.pre, last.first, last.route,
                           discard_limit(last.amount)).res = last.res

\* a routed exact-in command between different denoms paid out
C13_Witness ==
    /\ last.op = "Swap"
    /\ IsOk(last.res)
    /\ last.amount.kind = "ExactIn"
    /\ Len(last.route) >= 1
    /\ HopsTradeTwoDenoms
    /\ DistinctPools
    /\ last.res.amt > 0
    /\ store # last.pre

----------------------------------------------------------------------------
(* Properties of the settlement of a Swap command *)

\* what the last command has to burn and to mint, and the denom it mints
CmdPayIn ==
    IF last.amount.kind = "ExactIn" THEN last.amount.input ELSE Routed.res.amt
CmdGetOut ==
    IF last.amount.kind = "ExactIn" THEN Routed.res.amt ELSE last.amount.output
FinalDenomOut ==
    IF Len(last.route) > 0 THEN last.route[Len(last.route)].denom_out
    ELSE last.first.denom_out

\* the last command passed the slippage check and the sender held less than
\* the pay_in it had to burn
BurnFailed ==
    /\ last.op = "Swap"
    /\ IsOk(Routed.res)
    /\ ~ViolatesBound(last.amount, Routed.res)
    /\ CmdPayIn > 0
    /\ last.pre_bank[last.first.denom_in] < CmdPayIn

C14_AppDropsTheWrites ==
    BurnFailed
    => /\ last.res.tag = "Err"
       /\ store = last.pre
       /\ bank = last.pre_bank

\* C15: a successful Swap command burns exactly pay_in of first.denom_in from
\* the sender and mints exactly get_out of the route's final denom_out to the
\* sender, and answers Out(get_out) for ExactIn and In(pay_in) for ExactOut.
C15_SettlementIsExact ==
    (last.op = "Swap" /\ IsOk(last.res))
    => /\ LET burnt == [last.pre_bank EXCEPT ![last.first.denom_in] = @ - CmdPayIn]
          IN bank = [burnt EXCEPT ![FinalDenomOut] = @ + CmdGetOut]
       /\ last.res = Ok(IF last.amount.kind = "ExactIn" THEN Out(CmdGetOut)
                        ELSE In(CmdPayIn))

\* a routed exact-in command took its input of osmo from the sender and
\* gave btc
C15_Witness ==
    /\ last.op = "Swap"
    /\ IsOk(last.res)
    /\ last.amount.kind = "ExactIn"
    /\ Len(last.route) >= 1
    /\ last.first.denom_in = "osmo"
    /\ FinalDenomOut = "btc"
    /\ bank["osmo"] = last.pre_bank["osmo"] - last.amount.input
    /\ bank["btc"] > last.pre_bank["btc"]

----------------------------------------------------------------------------
(* Properties of the stored pools over a run of the App *)

\* the pool that set_pool stored under this id
SeedPool(id) == IF id = 1 THEN Pool1 ELSE Pool2

DenomsOf(p) == [i \in 1..Len(p.assets) |-> p.assets[i].denom]

RECURSIVE ChainOnSnapshots(_, _, _, _, _)
ChainOnSnapshots(pools, order, i, side, current) ==
    IF i > Len(order) THEN [ok |-> TRUE, amt |-> current, pools |-> pools]
    ELSE LET sw == order[i]
             r == swap(pools[sw.pool_id], sw.denom_in, sw.denom_out,
                       [side |-> side, amt |-> current])
         IN IF ~IsOk(r.res) THEN [ok |-> FALSE, amt |-> 0, pools |-> pools]
            ELSE ChainOnSnapshots([pools EXCEPT ![sw.pool_id] = r.pool],
                                  order, i + 1, side, r.res.amt)

Chained ==
    ChainOnSnapshots(last.pre, HopOrder(Hops, last.exact.side), 1,
                     last.exact.side, last.exact.amt)

\* C18: when a route visits a pool in more than one hop, each later hop on
\* that pool is computed on the snapshot the earlier hop left, and the pool
\* is stored with the mutations of all its hops (stated of hops that each
\* trade two different denoms, in commands that pay out).
C18_RevisitedPoolChains ==
    (last.op = "Swap" /\ IsOk(last.res) /\ ~DistinctPools
        /\ HopsTradeTwoDenoms /\ Chained.ok /\ last.res.amt > 0)
    => /\ last.res.amt = Chained.amt
       /\ store = Chained.pools

----------------------------------------------------------------------------
(* Properties of the reflect contract *)

\* C20: ReflectMsg, ReflectSubMsg and ChangeOwner succeed only for the stored
\* owner and otherwise fail with NotCurrentOwner(expected = owner, actual =
\* sender); the owner changes only by a successful ChangeOwner of the owner
\* to a valid address, after which the previous owner is rejected and the
\* new one accepted; a failed ChangeOwner leaves the owner as it was.
C20_OwnerOnly ==
    rcall.op # "none"
    => /\ IsOk(rcall.res) => rcall.sender = rcall.pre.owner
       /\ rcall.sender # rcall.pre.owner
            => rcall.res = NotCurrentOwner(rcall.pre.owner, rcall.sender)
       /\ config # rcall.pre
            => /\ rcall.op = "ChangeOwner"
               /\ IsOk(rcall.res)
               /\ addr_validate(rcall.new_owner).ok
       /\ (rcall.op = "ChangeOwner" /\ IsOk(rcall.res))
            => /\ config = State(rcall.new_owner)
               /\ query_owner(config).owner = rcall.new_owner
               /\ rcall.new_owner # rcall.pre.owner
                    => /\ execute_reflect(config, rcall.pre.owner,
                                          <<"BankMsg::Send">>).res
                            = NotCurrentOwner(rcall.new_owner, rcall.pre.owner)
                       /\ IsOk(execute_reflect(config, rcall.new_owner,
                                               <<"BankMsg::Send">>).res)
       /\ (rcall.op = "ChangeOwner" /\ ~IsOk(rcall.res)) => config = rcall.pre

\* the owner handed the contract over to another address in the last of the
\* executes of a behaviour
C20_Witness ==
    /\ rcall.op = "ChangeOwner"
    /\ IsOk(rcall.res)
    /\ rcall.pre.owner = "creator"
    /\ config.owner = "friend"
    /\ rcalls = MaxExecs

\* C21: ReflectMsg and ReflectSubMsg from the owner with a non-empty list
\* answer a response whose messages are the given ones in the given order;
\* with an empty list they fail with MessagesEmpty; a sender that is not the
\* owner gets NotCurrentOwner even with an empty list.
C21_ReflectDispatch ==
    rcall.op \in {"ReflectMsg", "ReflectSubMsg"}
    => IF rcall.sender # rcall.pre.owner
       THEN rcall.res = NotCurrentOwner(rcall.pre.owner, rcall.sender)
       ELSE IF Len(rcall.msgs) = 0
       THEN rcall.res = MessagesEmpty
       ELSE /\ IsOk(rcall.res)
            /\ Len(rcall.res.response.messages) = Len(rcall.msgs)
            /\ \A i \in 1..Len(rcall.msgs) :
                  rcall.res.response.messages[i]
                     = IF rcall.op = "ReflectMsg" THEN SubMsgNew(rcall.msgs[i])
                       ELSE rcall.msgs[i]

\* the owner reflected two different messages
C21_Witness ==
    /\ rcall.op = "ReflectMsg"
    /\ rcall.sender = rcall.pre.owner
    /\ Len(rcall.msgs) = 2
    /\ rcall.msgs[1] # rcall.msgs[2]
    /\ IsOk(rcall.res)
    /\ Len(rcall.res.response.messages) = 2

----------------------------------------------------------------------------
(* Properties of the tokenfactory contract *)

\* positions of the separator in the last call's denom
Separators == {i \in 1..Len(tcall.denom) : tcall.denom[i] = "/"}
FirstSeparator == CHOOSE i \in Separators : \A j \in Separators : i <= j
LastSeparator == CHOOSE i \in Separators : \A j \in Separators : j <= i
FirstPart == SubSeq(tcall.denom, 1, FirstSeparator - 1)
CreatorPart == SubSeq(tcall.denom, FirstSeparator + 1, LastSeparator - 1)
ThreeParts == Cardinality(Separators) = 2

\* the denom is malformed as the specification describes it
MalformedDenom == ~ThreeParts \/ FirstPart # <<"factory">>

\* the denom passes validate_denom: three parts, the prefix 'factory' in any
\* letter case, and a creator part the full denom query accepts
DenomPasses ==
    /\ ThreeParts
    /\ FirstPart \in {<<"factory">>, <<"FACTORY">>}
    /\ StrLen(CreatorPart) >= 3

AddressPasses == StrLen(tcall.address) >= 3

\* the message that mirrors the request
Mirror ==
    [type |-> tcall.op, subdenom |-> tcall.subdenom, denom |-> tcall.denom,
     amount |-> tcall.amount, address |-> tcall.address]

Method ==
    IF tcall.op = "CreateDenom" THEN "create_denom"
    ELSE IF tcall.op = "ChangeAdmin" THEN "change_admin"
    ELSE IF tcall.op = "MintTokens" THEN "mint_tokens" ELSE "burn_tokens"

\* the response carries the one mirroring message, one attribute and no data
MirrorsRequest ==
    /\ IsOk(tcall.res)
    /\ tcall.res.messages = <<Mirror>>
    /\ tcall.res.attributes = << <<"method", Method>> >>
    /\ tcall.res.data = None

FailsWith(errs) ==
    /\ ~IsOk(tcall.res)
    /\ tcall.res.messages = <<>>
    /\ tcall.res.err \in errs

\* the errors the specification names for the last call's input
NamedErrors ==
    (IF tcall.op = "CreateDenom" /\ tcall.subdenom = <<>>
     THEN {"InvalidSubdenom"} ELSE {})
    \cup (IF tcall.op = "BurnTokens" /\ tcall.address # <<>>
          THEN {"BurnFromAddressNotSupported"} ELSE {})
    \cup (IF /\ tcall.op \in {"MintTokens", "BurnTokens"}
             /\ tcall.amount = 0
             /\ ~(tcall.op = "BurnTokens" /\ tcall.address # <<>>)
          THEN {"ZeroAmount"} ELSE {})
    \cup (IF /\ tcall.op \in {"ChangeAdmin", "MintTokens", "BurnTokens"}
             /\ MalformedDenom
             /\ ~(tcall.op = "BurnTokens" /\ tcall.address # <<>>)
          THEN {"InvalidDenom"} ELSE {})

\* C22 as stated: every execute of the tokenfactory contract either answers
\* the one message mirroring the request, or fails without a message; an
\* input the specification names as invalid (empty subdenom, zero amount,
\* burn_from_address given, denom without three parts or without the first
\* part 'factory') fails with the error named for it.
C22_NamedErrors ==
    tcall.op # "none"
    => /\ MirrorsRequest \/ FailsWith({tcall.res.err})
       /\ NamedErrors # {} => FailsWith(NamedErrors)

\* C22 amended: the address of ChangeAdmin and MintTokens is validated first
\* and fails with Std; then BurnTokens refuses a burn_from_address; then a
\* zero amount fails with ZeroAmount; then the denom fails with InvalidDenom
\* unless it has three parts, the first being 'factory' in any letter case,
\* and the full denom query accepts it; the request is mirrored in exactly
\* the remaining cases.
C22_ValidationOrder ==
    tcall.op # "none"
    => IF tcall.op = "CreateDenom"
       THEN IF tcall.subdenom = <<>> THEN FailsWith({"InvalidSubdenom"})
            ELSE MirrorsRequest
       ELSE IF tcall.op \in {"ChangeAdmin", "MintTokens"} /\ ~AddressPasses
       THEN FailsWith({"Std"})
       ELSE IF tcall.op = "BurnTokens" /\ tcall.address # <<>>
       THEN FailsWith({"BurnFromAddressNotSupported"})
       ELSE IF tcall.op \in {"MintTokens", "BurnTokens"} /\ tcall.amount = 0
       THEN FailsWith({"ZeroAmount"})
       ELSE IF ~DenomPasses THEN FailsWith({"InvalidDenom"})
       ELSE MirrorsRequest

\* a burn with an address and a zero amount was refused for the address, and
\* the denom had the three parts
C22_Witness ==
    /\ tcall.op = "BurnTokens"
    /\ tcall.address # <<>>
    /\ tcall.amount = 0
    /\ DenomPasses
    /\ tcall.res = BurnFromAddressNotSupported

----------------------------------------------------------------------------
(* Properties of the hop list *)

Order == HopOrder(Hops, last.exact.side)

\* the hop cannot be computed on the store the command started from
HopFails(h) ==
    \/ h.pool_id \notin DOMAIN last.pre
    \/ ~has_denom(last.pre[h.pool_id], h.denom_in)
    \/ ~has_denom(last.pre[h.pool_id], h.denom_out)

HopError(h) ==
    IF h.pool_id \notin DOMAIN last.pre THEN "NotFound" ELSE "AssetNotInPool"

\* hop k fails after the hops before it have been computed
FailsAfterOthers(k) ==
    /\ last.op = "Swap"
    /\ k \in 2..Len(Order)
    /\ HopFails(Order[k])
    /\ IsOk(HopLoop(last.pre, SubSeq(Order, 1, k - 1), 1, last.exact.side,
                    last.exact.amt, <<>>).res)

\* C24: when a hop fails (its pool id is not stored, or its pool lacks one of
\* its denoms) after other hops have been computed, the command fails with
\* that hop's error, never with PriceTooLow, and no pool and no balance has
\* changed.
C24_LateHopFailure ==
    \A k \in 2..Len(Order) :
        FailsAfterOthers(k)
        => /\ last.res = Err(HopError(Order[k]))
           /\ last.written = last.pre
           /\ store = last.pre
           /\ bank = last.pre_bank

\* an exact-in command whose first hop is computed and whose second hop names
\* a pool that is not stored
C24_Witness ==
    /\ FailsAfterOthers(2)
    /\ last.exact.side = "In"
    /\ Order[2].pool_id \notin DOMAIN last.pre
    /\ last.res = Err("NotFound")

\* C25: as_out is only applied to an Out value and as_in only to an In value:
\* no Swap command and no EstimateSwap query reaches the "was input" /
\* "was output" panic, and a routed result carries the side opposite to the
\* caller's exact side.
C25_VariantSafety ==
    last.op \in {"Swap", "EstimateSwap"}
    => /\ last.res # Panic("wrong variant")
       /\ Estimated.res # Panic("wrong variant")
       /\ IsOk(Estimated.res)
          => Estimated.res.side
                = (IF last.exact.side = "In" THEN "Out" ELSE "In")

\* an exact-out command over two hops went through: as_in was applied after
\* each hop and by the handler
C25_Witness ==
    /\ last.op = "Swap"
    /\ last.exact.side = "Out"
    /\ Len(last.route) = 1
    /\ IsOk(last.res)
    /\ last.res.side = "In"

----------------------------------------------------------------------------
(* Further properties of Pool *)

\* C26: a successful exact-out swap never under-collects: with pay_incl_fee
\* the input it returns, (bal_in + pay_incl_fee) * (bal_out - output) is at
\* least bal_in * bal_out, for every fee below 1.
C26_ExactOutCollectsEnough ==
    (SwapOut /\ SwapOk /\ BothPresent)
    => (BalIn + call.res.amt) * (BalOut - call.amount.amt) >= BalIn * BalOut

\* an exact-out swap at a fee, where the division by the remaining balance
\* is inexact, went through
C26_Witness ==
    /\ SwapOut
    /\ PlainSwap
    /\ SwapOk
    /\ call.pre.fee > 0
    /\ (BalIn * BalOut) % (BalOut - call.amount.amt) # 0
    /\ call.res.amt > 0

\* the asset of the pool the call found that holds the denom
Slot == Position(call.pre.assets, call.denom_in)

\* C27: set_amount on a denom of the pool replaces that balance and nothing
\* else (the other balances, the order of the assets, shares and fee stay),
\* and get_amount then answers Some(amount); on a denom the pool lacks it
\* fails with AssetNotInPool and leaves the pool as it was; get_amount of a
\* denom the pool lacks answers None.
C27_SetAndGetAmount ==
    /\ call.op = "set_amount"
       => IF Present(call.pre, call.denom_in)
          THEN /\ call.res = OkUnit
               /\ Len(pool.assets) = Len(call.pre.assets)
               /\ \A i \in 1..Len(pool.assets) :
                     /\ pool.assets[i].denom = call.pre.assets[i].denom
                     /\ pool.assets[i].amount =
                           IF i = Slot THEN call.amount.amt
                           ELSE call.pre.assets[i].amount
               /\ pool.shares = call.pre.shares
               /\ pool.fee = call.pre.fee
               /\ get_amount(pool, call.denom_in) = Some(call.amount.amt)
          ELSE /\ call.res = Err("AssetNotInPool")
               /\ pool = call.pre
    /\ call.op = "get_amount"
       => /\ pool = call.pre
          /\ IF Present(call.pre, call.denom_in)
             THEN call.got = Some(call.pre.assets[Slot].amount)
             ELSE call.got = None

\* a balance was replaced by a different amount
C27_Witness ==
    /\ call.op = "set_amount"
    /\ Present(call.pre, call.denom_in)
    /\ call.amount.amt # Balance(call.pre, call.denom_in)
    /\ call.res = OkUnit
    /\ Balance(pool, call.denom_in) = call.amount.amt

\* what Pool::swap answers on the pool swap_with_limit was called on
Unlimited == swap(call.pre, call.denom_in, call.denom_out, call.amount)

\* the caller's limit is violated by the swap's result
LimitViolated ==
    \/ call.limited.kind = "ExactIn"
          /\ Unlimited.res.amt < call.limited.min_output
    \/ call.limited.kind = "ExactOut"
          /\ Unlimited.res.amt > call.limited.max_input

\* a limited swap of one denom for another, on a pool that holds some of
\* both, for which Pool::swap answers a positive amount
LimitedPlainSwap ==
    /\ call.op = "swap_with_limit"
    /\ call.denom_in # call.denom_out
    /\ BothPresent
    /\ BalIn > 0
    /\ BalOut > 0
    /\ IsOk(Unlimited.res)
    /\ Unlimited.res.amt > 0

\* C28: swap_with_limit applies the bounds of the Swap command (ExactIn:
\* PriceTooLow exactly when the payout is below min_output; ExactOut: exactly
\* when the pay-in is above max_input), and when it returns PriceTooLow the
\* pool still holds the balances it had before the call (stated of plain
\* swaps).
C28_LimitedSwap ==
    LimitedPlainSwap
    => /\ call.res = Err("PriceTooLow") <=> LimitViolated
       /\ ~LimitViolated => call.res = Unlimited.res
       /\ call.res = Err("PriceTooLow") => pool = call.pre

\* Supporting check: the bound itself is the Swap command's.
C28_SameBound ==
    (call.op = "swap_with_limit" /\ IsOk(Unlimited.res))
    => /\ call.res = Err("PriceTooLow") <=> LimitViolated
       /\ ~LimitViolated => call.res = Unlimited.res

\* C29: a pool is never drained: from two positive balances, a successful
\* swap of one denom for another leaves both balances strictly positive, and
\* an exact-in swap never pays out the entire denom_out balance.
C29_NeverDrained ==
    (SwapOk /\ PlainSwap)
    => /\ Balance(pool, call.denom_in) > 0
       /\ Balance(pool, call.denom_out) > 0
       /\ SwapIn => call.res.amt < BalOut

\* Supporting check: an exact-out swap that succeeds leaves some of both.
C29_ExactOutLeavesSome ==
    (SwapOk /\ PlainSwap /\ SwapOut)
    => /\ Balance(pool, call.denom_in) > 0
       /\ Balance(pool, call.denom_out) > 0

----------------------------------------------------------------------------
(* Properties of the block clock *)

\* the last call asked for at least one block
AsksForBlocks ==
    \/ bcall.op = "next_block"
    \/ bcall.op = "advance_seconds"
    \/ bcall.op = "advance_blocks" /\ bcall.arg >= 1

\* C30: over any sequence of advance_blocks, next_block and advance_seconds,
\* height and time never decrease, a call that asks for at least one block
\* raises the height by at least 1, and the time elapsed since the App was
\* built is BLOCK_TIME times the height elapsed since then.
C30_BlockClock ==
    bcall.op # "none"
    => /\ block.height >= bcall.pre.height
       /\ block.time >= bcall.pre.time
       /\ AsksForBlocks => block.height >= bcall.pre.height + 1
       /\ block.time - AppNew.time = BLOCK_TIME * (block.height - AppNew.height)

\* Supporting check: the clock moves forward only, within the heights
\* explored.
C30_ClockMovesForward ==
    bcall.op # "none"
    => /\ block.height >= bcall.pre.height
       /\ block.time >= bcall.pre.time
       /\ AsksForBlocks => block.height >= bcall.pre.height + 1

\* Supporting check: advance_blocks and next_block alone keep the ratio.
C30_BlocksKeepTheRatio ==
    bcall.op \in {"advance_blocks", "next_block"}
    => block.time - bcall.pre.time
          = BLOCK_TIME * (block.height - bcall.pre.height)

====
